---- MODULE Spec2Model ----
(***************************************************************************)
(* Model of trade_usd_jup.py: a one-shot, straight-line swap pipeline.     *)
(*   stage 1 (lines 2-12)   token registry fetch and tradability check     *)
(*   stage 2 (lines 15-52)  quote request and route selection              *)
(*   stage 3 (lines 55-74)  swap-transaction request and field check       *)
(*   stage 4 (lines 75-76)  base64 decode and signing                      *)
(*   stage 5 (lines 79-84)  RPC submission and explorer link               *)
(* Every stage is one action; the responses of the external services are   *)
(* the inputs of the actions.  sys.exit(msg) is modelled as exit status 1  *)
(* with the named message; an exception nobody catches is modelled as exit *)
(* status 1 with the message "traceback" (the interpreter prints the       *)
(* traceback and ends with status 1).                                      *)
(***************************************************************************)
EXTENDS Integers, Sequences, FiniteSets

\* ---------------------------------------------------------------- bounds
MaxTokens == 2      \* longest token registry list
MaxRoutes == 2      \* longest route list in a quote response
MaxAtoms  == 3      \* largest requested amount, in atomic units
MaxMin    == 5      \* largest minInAmount / minIn hint

\* ------------------------------------------------------------ JSON values
\* A JSON value as Python sees it: None (also: key absent, the default of
\* dict.get), an int, the string "1200" (a non-int value; s holds its
\* characters, which subscripting yields), or a list.
JNone   == [k |-> "none", v |-> 0, s |-> <<>>]
JInt(n) == [k |-> "int",  v |-> n, s |-> <<>>]
JStr    == [k |-> "str",  v |-> 0, s |-> <<"1", "2", "0", "0">>]
JSeq(s) == [k |-> "seq",  v |-> 0, s |-> s]

\* Python truthiness of a JSON value.
Truthy(j) ==
    CASE j.k = "none" -> FALSE
      [] j.k = "int"  -> j.v # 0
      [] j.k = "str"  -> j.s # <<>>
      [] j.k = "seq"  -> j.s # <<>>

\* Python's `a or b`.
PyOr(a, b) == IF Truthy(a) THEN a ELSE b

\* ------------------------------------------------------------ input sets
Mints  == {"mintA", "mintB"}
Absent == "absent"

\* extensions of a registry entry: key absent, explicit null, or a dict whose
\* coingeckoId is id ("" when the dict carries none or an empty one).
ExtAbsent == [k |-> "absent", id |-> ""]
ExtNull   == [k |-> "null",   id |-> ""]
ExtDict(id) == [k |-> "dict", id |-> id]
Extensions == {ExtAbsent, ExtNull, ExtDict(""), ExtDict("cg")}

\* A registry entry; address may be missing, trades may be missing.
TokenEntries ==
    [address : Mints \cup {Absent}, trades : {JNone, JInt(0), JInt(1)},
     extensions : Extensions]

SeqsUpTo(S, n) == UNION {[1..m -> S] : m \in 0..n}

TokenLists == SeqsUpTo(TokenEntries, MaxTokens)

Routes    == {"r1", "r2"}
RouteSeqs == SeqsUpTo(Routes, MaxRoutes)

\* minInAmount / minIn as the quote response may carry them.
MinVals == {JNone, JStr} \cup {JInt(n) : n \in 0..MaxMin}

\* The parsed quote body (q_json): a bare list, a number, a string, or an
\* object with the keys data, minInAmount and minIn (JNone: key absent or
\* null).
QNone    == [k |-> "none", v |-> 0, s |-> <<>>,
             data |-> JNone, minInAmount |-> JNone, minIn |-> JNone]
QList(s) == [k |-> "seq", v |-> 0, s |-> s,
             data |-> JNone, minInAmount |-> JNone, minIn |-> JNone]
QNum(n)  == [k |-> "int", v |-> n, s |-> <<>>,
             data |-> JNone, minInAmount |-> JNone, minIn |-> JNone]
QStr     == [k |-> "str", v |-> 0, s |-> JStr.s,
             data |-> JNone, minInAmount |-> JNone, minIn |-> JNone]
QDict(d, m1, m2) == [k |-> "dict", v |-> 0, s |-> <<>>,
             data |-> d, minInAmount |-> m1, minIn |-> m2]

\* The hint fields are read only when there is no route, so responses with
\* routes are enumerated without them.
QuoteJsons ==
    {QList(s) : s \in RouteSeqs} \cup {QNum(0), QNum(7), QStr}
    \cup {QDict(JSeq(s), JNone, JNone) : s \in RouteSeqs \ {<<>>}}
    \cup {QDict(JStr, JNone, JNone), QDict(JInt(7), JNone, JNone)}
    \cup {QDict(d, m1, m2) : d \in {JNone, JSeq(<<>>), JInt(0)},
                             m1 \in MinVals, m2 \in MinVals}

FailKinds == {"network", "http_error", "badjson"}

RegistryResponses(lists) ==
    [kind : FailKinds, list : {<<>>}] \cup [kind : {"ok"}, list : lists]

QuoteResponses(jsons) ==
    [kind : FailKinds, json : {QNone}] \cup [kind : {"ok"}, json : jsons]

\* The parsed swap body: an object with or without the "swapTransaction" key,
\* a list without or with the string "swapTransaction" as an element, or a
\* scalar (number, null, boolean).  tx is the value of the key: base64 of a
\* well-formed transaction ("good") or anything else ("bad").
NoSwapJson == [shape |-> "none", tx |-> "none"]
SwapJsons ==
    [shape : {"obj_with"}, tx : {"good", "bad"}]
    \cup [shape : {"obj_without", "list_without", "list_with", "scalar"}, tx : {"none"}]

SwapResponses(jsons) ==
    [kind : FailKinds, json : {NoSwapJson}] \cup [kind : {"ok"}, json : jsons]

RpcResults == {"ok", "raise"}

\* (input_dec, price_usd): decimals of the input token and its price in USD
\* cents per whole token.  Both are computed before line 1; the price is
\* positive (the amount in atoms was derived from it by a division).
Units == {[dec |-> 0, price |-> 100], [dec |-> 2, price |-> 100],
          [dec |-> 2, price |-> 4], [dec |-> 2, price |-> 50],
          [dec |-> 1, price |-> 25]}

\* ------------------------------------------------------------------ state
VARIABLES
    from_mint, to_mint, atoms_in, input_dec, price_usd,   \* inputs
    pc, exit_code, exit_msg, calls,                       \* control, exit
    warned, dumped, sent,                                 \* prints
    tokens, token_list, tradable,                         \* stage 1
    quote_resp, q_json, routes, quote, min_usd,           \* stage 2
    swap_request, swap_resp, swap_json,                   \* stage 3
    decoded, signed,                                      \* stage 4
    rpc                                                   \* stage 5

inputs == <<from_mint, to_mint, atoms_in, input_dec, price_usd>>
ctl    == <<pc, exit_code, exit_msg>>
stage1 == <<tokens, token_list, tradable, warned>>
stage2 == <<quote_resp, q_json, routes, quote, min_usd, dumped>>
stage3 == <<swap_request, swap_resp, swap_json>>
stage4 == <<decoded, signed>>
stage5 == <<rpc, sent>>
vars   == <<inputs, ctl, calls, stage1, stage2, stage3, stage4, stage5>>

\* exit_code is -1 while the process runs.
InitWith(pairs, atoms, units) ==
    /\ \E p \in pairs : from_mint = p[1] /\ to_mint = p[2]
    /\ atoms_in \in atoms
    /\ \E u \in units : input_dec = u.dec /\ price_usd = u.price
    /\ pc = "fetch_tokens" /\ exit_code = -1 /\ exit_msg = "none"
    /\ calls = <<>>
    /\ warned = FALSE /\ dumped = FALSE /\ sent = FALSE
    /\ tokens = "pending" /\ token_list = <<>> /\ tradable = {}
    /\ quote_resp = "pending" /\ q_json = QNone /\ routes = JNone
    /\ quote = "none" /\ min_usd = JNone
    /\ swap_request = "none" /\ swap_resp = "pending" /\ swap_json = NoSwapJson
    /\ decoded = FALSE /\ signed = FALSE
    /\ rpc = "pending"

\* ---------------------------------------------------------- control flow
Goto(label) == pc' = label /\ exit_code' = -1 /\ exit_msg' = "none"

\* sys.exit(msg): SystemExit with a string prints it and ends with status 1.
SysExit(msg) == pc' = "exited" /\ exit_code' = 1 /\ exit_msg' = msg

\* An exception that no handler catches.
Uncaught == SysExit("traceback")

\* ------------------------------------------- stage 1: tradability check
\* Mutant of IsTradable: the filter written as a truthiness test of trades,
\*   t.get("trades") or t.get("extensions", {}).get("coingeckoId")
IsTradableTruthy(t) ==
    \/ Truthy(t.trades)
    \/ t.extensions.k = "dict" /\ t.extensions.id # ""

\* Line 6, the filter of the set comprehension:
\*   t.get("trades") != 0 or t.get("extensions", {}).get("coingeckoId")
IsTradable(t) ==
    \/ t.trades # JInt(0)
    \/ t.extensions.k = "dict" /\ t.extensions.id # ""

\* Line 6 raises on an entry when the filter is reached with extensions null
\* (None.get: AttributeError), or when the entry passes the filter and has no
\* "address" key (KeyError).
EntryRaises(t) ==
    \/ t.trades = JInt(0) /\ t.extensions.k = "null"
    \/ IsTradable(t) /\ t.address = Absent

ComprehensionRaises(list) == \E i \in DOMAIN list : EntryRaises(list[i])

\* Line 6: the set of the addresses of the entries that pass the filter.
TradableSet(list) ==
    {list[i].address : i \in {j \in DOMAIN list : IsTradable(list[j])}}

\* Mutant of OnRegistryException: the handler re-raises after the warning.
OnRegistryExceptionFatal ==
    /\ warned' = TRUE /\ tradable' = {} /\ Uncaught

\* Lines 11-12: `except Exception` prints the warning and falls through to
\* the quote stage.
OnRegistryException ==
    /\ warned' = TRUE /\ tradable' = {} /\ Goto("get_quote")

\* Lines 7-10, reached when line 6 completed.  SystemExit is not an
\* Exception, so the handler of line 11 lets it through.
CheckMints(tr) ==
    /\ warned' = FALSE /\ tradable' = tr
    /\ IF from_mint \notin tr THEN SysExit("input_not_tradable")
       ELSE IF to_mint \notin tr THEN SysExit("output_not_tradable")
       ELSE Goto("get_quote")

\* Lines 2-12.
FetchTokens(responses) ==
    /\ pc = "fetch_tokens"
    /\ \E r \in responses :
        /\ calls' = Append(calls, "registry")
        /\ tokens' = r.kind
        /\ token_list' = r.list
        /\ IF r.kind # "ok" \/ ComprehensionRaises(r.list)
           THEN OnRegistryException
           ELSE CheckMints(TradableSet(r.list))
    /\ UNCHANGED <<inputs, stage2, stage3, stage4, stage5>>

\* ------------------------------------------------ stage 2: quote, route
\* Line 35: routes = q_json.get("data") if isinstance(q_json, dict) else q_json
RoutesOf(q) ==
    IF q.k = "dict" THEN q.data ELSE [k |-> q.k, v |-> q.v, s |-> q.s]

\* Line 37: `if not routes`.
NoRoutes(r) == ~Truthy(r)

\* Lines 39-41.
MinInAtoms(q) == IF q.k = "dict" THEN PyOr(q.minInAmount, q.minIn) ELSE JNone

\* Line 42.
HintApplies(m, atoms) == Truthy(m) /\ m.k = "int" /\ m.v > atoms

\* ------------------------------------------- binary floating point (float)
\* Natural numbers of any size, as little-endian sequences of limbs in base
\* 2^15 without leading zero limbs (<<>> is 0): the 53-bit significands of
\* Python floats and their products do not fit the integers of the checker.
Limb == 2^15

RECURSIVE BigNorm(_)
BigNorm(a) ==
    IF a = <<>> THEN <<>>
    ELSE IF a[Len(a)] = 0 THEN BigNorm(SubSeq(a, 1, Len(a) - 1)) ELSE a

RECURSIVE BigOfInt(_)
BigOfInt(n) == IF n = 0 THEN <<>> ELSE <<n % Limb>> \o BigOfInt(n \div Limb)

RECURSIVE BigToInt(_)
BigToInt(a) == IF a = <<>> THEN 0 ELSE Head(a) + Limb * BigToInt(Tail(a))

RECURSIVE BigAddC(_, _, _)
BigAddC(a, b, c) ==
    IF a = <<>> /\ b = <<>> THEN (IF c = 0 THEN <<>> ELSE <<c>>)
    ELSE LET x == (IF a = <<>> THEN 0 ELSE Head(a))
                  + (IF b = <<>> THEN 0 ELSE Head(b)) + c
         IN  <<x % Limb>> \o BigAddC(IF a = <<>> THEN <<>> ELSE Tail(a),
                                     IF b = <<>> THEN <<>> ELSE Tail(b),
                                     x \div Limb)

BigAdd(a, b) == BigAddC(a, b, 0)

\* a - b for a >= b.
RECURSIVE BigSubC(_, _, _)
BigSubC(a, b, c) ==
    IF a = <<>> THEN <<>>
    ELSE LET x == Head(a) - (IF b = <<>> THEN 0 ELSE Head(b)) - c
         IN  <<x % Limb>> \o BigSubC(Tail(a),
                                     IF b = <<>> THEN <<>> ELSE Tail(b),
                                     IF x < 0 THEN 1 ELSE 0)

BigSub(a, b) == BigNorm(BigSubC(a, b, 0))

\* -1, 0 or 1 as a < b, a = b or a > b.
RECURSIVE BigCmpAt(_, _, _)
BigCmpAt(a, b, i) ==
    IF i = 0 THEN 0
    ELSE IF a[i] < b[i] THEN -1
    ELSE IF a[i] > b[i] THEN 1
    ELSE BigCmpAt(a, b, i - 1)

BigCmp(a, b) ==
    IF Len(a) < Len(b) THEN -1
    ELSE IF Len(a) > Len(b) THEN 1
    ELSE BigCmpAt(a, b, Len(a))

\* a * k + c for 0 <= k, c < Limb.
RECURSIVE BigMulSmallC(_, _, _)
BigMulSmallC(a, k, c) ==
    IF a = <<>> THEN (IF c = 0 THEN <<>> ELSE <<c>>)
    ELSE LET x == Head(a) * k + c
         IN  <<x % Limb>> \o BigMulSmallC(Tail(a), k, x \div Limb)

BigMulSmall(a, k) == BigNorm(BigMulSmallC(a, k, 0))

RECURSIVE BigMul(_, _)
BigMul(a, b) ==
    IF a = <<>> \/ b = <<>> THEN <<>>
    ELSE BigAdd(BigMulSmall(a, Head(b)), BigNorm(<<0>> \o BigMul(a, Tail(b))))

\* <<quotient, remainder>> of the limbs of a from limb i upwards by d, for
\* 0 < d < Limb (short division; the quotient may have leading zero limbs).
RECURSIVE BigDivSmallFrom(_, _, _)
BigDivSmallFrom(a, d, i) ==
    IF i > Len(a) THEN <<<<>>, 0>>
    ELSE LET up == BigDivSmallFrom(a, d, i + 1)
             x  == up[2] * Limb + a[i]
         IN  <<<<x \div d>> \o up[1], x % d>>

BigDivSmall(a, d) ==
    LET qr == BigDivSmallFrom(a, d, 1) IN <<BigNorm(qr[1]), qr[2]>>

\* a * 2^k and floor(a / 2^k).
BigShl(a, k) ==
    IF a = <<>> THEN <<>>
    ELSE [i \in 1..(k \div 15) |-> 0] \o BigMulSmall(a, 2^(k % 15))

BigShr(a, k) ==
    IF k \div 15 >= Len(a) THEN <<>>
    ELSE BigDivSmall(SubSeq(a, k \div 15 + 1, Len(a)), 2^(k % 15))[1]

RECURSIVE SmallBitLen(_)
SmallBitLen(n) == IF n = 0 THEN 0 ELSE 1 + SmallBitLen(n \div 2)

BitLen(a) == IF a = <<>> THEN 0 ELSE 15 * (Len(a) - 1) + SmallBitLen(a[Len(a)])

\* (f + x) / 2^k rounded to the nearest integer, ties to even, where k >= 1
\* and 0 < x < 1 when inexact, x = 0 otherwise.
BigRoundShr(f, k, inexact) ==
    LET q    == BigShr(f, k)
        rem  == BigSub(f, BigShl(q, k))
        half == BigCmp(BigAdd(rem, rem), BigShl(<<1>>, k))
        odd  == q # <<>> /\ q[1] % 2 = 1
    IN  IF half > 0 \/ (half = 0 /\ (inexact \/ odd)) THEN BigAdd(q, <<1>>) ELSE q

\* A float is [m, e] with value m * 2^e, m of 53 bits (2^53 when the rounding
\* carries).  The exponent range is not modelled: no overflow, no subnormals.
FloatZero == [m |-> <<>>, e |-> 0]

\* <<floor(f / 10^dec), inexact>>, dividing by at most 10^4 at a time.
RECURSIVE BigDivPow10(_, _, _)
BigDivPow10(f, dec, inexact) ==
    IF dec = 0 THEN <<f, inexact>>
    ELSE LET step == IF dec > 4 THEN 4 ELSE dec
             qr   == BigDivSmall(f, 10^step)
         IN  BigDivPow10(qr[1], dec - step, inexact \/ qr[2] # 0)

\* int / int, Python's true division, for a >= 0 and the divisor 10^dec: the
\* float nearest to the quotient, ties to even.  The quotient is computed with
\* at least 55 bits and rounded to 53.
FloatDivPow10(a, dec) ==
    IF a = 0 THEN FloatZero
    ELSE LET n  == BigOfInt(a)
             s  == 56 + 4 * dec - BitLen(n)
             fi == BigDivPow10(BigShl(n, s), dec, FALSE)
             k  == BitLen(fi[1]) - 53
         IN  [m |-> BigRoundShr(fi[1], k, fi[2]), e |-> k - s]

\* float * float, correctly rounded.
FloatMul(x, y) ==
    IF x.m = <<>> \/ y.m = <<>> THEN FloatZero
    ELSE LET p == BigMul(x.m, y.m)
             k == BitLen(p) - 53
         IN  IF k <= 0 THEN [m |-> p, e |-> x.e + y.e]
             ELSE [m |-> BigRoundShr(p, k, FALSE), e |-> x.e + y.e + k]

\* f"{x:.2f}" as a number of hundredths: the exact value of the float,
\* rounded to two decimals, ties to even.
Format2f(x) ==
    LET h == BigMulSmall(x.m, 100)
    IN  BigToInt(IF x.e >= 0 THEN BigShl(h, x.e) ELSE BigRoundShr(h, -x.e, FALSE))

\* The float price_usd of a price of `price` cents: the float nearest to
\* price / 100.
PriceFloat(price) == FloatDivPow10(price, 2)

\* Lines 43 and 45 on any amount: atoms / 10**dec * price_usd formatted with
\* two decimals, in cents.
UsdCents(atoms, dec, price) ==
    Format2f(FloatMul(FloatDivPow10(atoms, dec), PriceFloat(price)))

\* Mutant of MinUsd: one decimal too many in the scale.
MinUsdWrongScale(m, dec, price) == UsdCents(m, dec + 1, price)

\* Lines 43 and 45: min_in_atoms / 10**input_dec * price_usd formatted with
\* two decimals; the result is the printed figure in cents.
MinUsd(m, dec, price) == UsdCents(m, dec, price)

\* Mutant of FirstRoute: quote = routes[-1].
LastRoute(r) == r.s[Len(r.s)]

\* Line 52: quote = routes[0]: the first element of a list, the first
\* character of a string.
FirstRoute(r) == r.s[1]

\* Mutant of OnNoRoutes: the quote is requested a second time.
OnNoRoutesRetry(q) ==
    /\ min_usd' = JNone
    /\ dumped' = TRUE
    /\ IF Len(calls) < 3 THEN Goto("get_quote") ELSE SysExit("no_route")

\* Lines 37-50: no route.
OnNoRoutes(q) ==
    LET m == MinInAtoms(q) IN
    IF HintApplies(m, atoms_in)
    THEN /\ min_usd' = JInt(MinUsd(m.v, input_dec, price_usd))
         /\ dumped' = FALSE
         /\ SysExit("min_amount")
    ELSE /\ min_usd' = JNone
         /\ dumped' = TRUE
         /\ SysExit("no_route")

\* Lines 15-52.  requests.get (line 15) and quote_resp.json() (line 33) are
\* outside every try: what they raise is uncaught.  routes[0] raises TypeError
\* on a number; on a non-empty list or string it yields the first element.
GetQuote(responses) ==
    /\ pc = "get_quote"
    /\ \E r \in responses :
        /\ calls' = Append(calls, "quote")
        /\ quote_resp' = r.kind
        /\ q_json' = r.json
        /\ routes' = IF r.kind = "ok" THEN RoutesOf(r.json) ELSE JNone
        /\ CASE r.kind = "http_error" ->
                  /\ SysExit("quote_api_error")
                  /\ UNCHANGED <<quote, min_usd, dumped>>
             [] r.kind \in {"network", "badjson"} ->
                  /\ Uncaught
                  /\ UNCHANGED <<quote, min_usd, dumped>>
             [] r.kind = "ok" /\ NoRoutes(RoutesOf(r.json)) ->
                  /\ OnNoRoutes(r.json)
                  /\ UNCHANGED quote
             [] r.kind = "ok" /\ ~NoRoutes(RoutesOf(r.json)) ->
                  /\ UNCHANGED <<min_usd, dumped>>
                  /\ IF RoutesOf(r.json).k \in {"seq", "str"}
                        /\ Len(RoutesOf(r.json).s) > 0
                     THEN quote' = FirstRoute(RoutesOf(r.json)) /\ Goto("get_swap_tx")
                     ELSE UNCHANGED quote /\ Uncaught
    /\ UNCHANGED <<inputs, stage1, stage3, stage4, stage5>>

\* ---------------------------------------- stage 3: swap-transaction request
\* Mutant of HasSwapTransaction: the presence check always passes.
HasSwapTransactionAny(j) == TRUE

\* Line 71: "swapTransaction" in swap_json, for the shapes on which `in` is
\* defined (key of an object, element of a list).
HasSwapTransaction(j) == j.shape \in {"obj_with", "list_with"}

\* Lines 70-74, after a parsed body: `in` on a number, null or boolean raises
\* TypeError, and so does swap_json["swapTransaction"] (line 74) on a list.
CheckSwapJson(j) ==
    IF j.shape = "scalar" THEN Uncaught
    ELSE IF ~HasSwapTransaction(j) THEN SysExit("no_swap_tx")
    ELSE IF j.shape = "list_with" THEN Uncaught
    ELSE Goto("sign_tx")

\* Lines 55-74.  The handler of line 67 catches requests.HTTPError only, so a
\* connection error or a timeout of requests.post is uncaught, and so is what
\* swap_resp.json() (line 70) raises.
GetSwapTx(responses) ==
    /\ pc = "get_swap_tx"
    /\ \E r \in responses :
        /\ calls' = Append(calls, "swap")
        /\ swap_request' = quote
        /\ swap_resp' = r.kind
        /\ swap_json' = r.json
        /\ CASE r.kind = "http_error" -> SysExit("swap_api_error")
             [] r.kind \in {"network", "badjson"} -> Uncaught
             [] r.kind = "ok" -> CheckSwapJson(r.json)
    /\ UNCHANGED <<inputs, stage1, stage2, stage4, stage5>>

\* --------------------------------------------- stage 4: decode and sign
\* Lines 75-76.  b64decode / VersionedTransaction.from_bytes raise on a
\* malformed payload.
DecodeSign ==
    /\ pc = "sign_tx"
    /\ IF swap_json.tx = "good"
       THEN /\ decoded' = TRUE /\ signed' = TRUE
            /\ calls' = Append(calls, "sign")
            /\ Goto("submit")
       ELSE /\ UNCHANGED <<decoded, signed, calls>>
            /\ Uncaught
    /\ UNCHANGED <<inputs, stage1, stage2, stage3, stage5>>

\* ------------------------------------------------- stage 5: submission
\* Mutant of OnRpcException: the exception is swallowed and the script ends.
OnRpcExceptionIgnored ==
    /\ UNCHANGED sent
    /\ pc' = "done" /\ exit_code' = 0 /\ exit_msg' = "none"

\* Lines 81-82.
OnRpcException == SysExit("rpc_failed") /\ UNCHANGED sent

\* Line 84 and the end of the script: status 0.
OnRpcSuccess ==
    /\ sent' = TRUE
    /\ pc' = "done" /\ exit_code' = 0 /\ exit_msg' = "none"

\* Lines 79-84.
Submit(results) ==
    /\ pc = "submit"
    /\ \E r \in results :
        /\ calls' = Append(calls, "submit")
        /\ rpc' = r
        /\ IF r = "raise" THEN OnRpcException ELSE OnRpcSuccess
    /\ UNCHANGED <<inputs, stage1, stage2, stage3, stage4>>

\* ------------------------------------------------------- specifications
Tok(a, t, e) == [address |-> a, trades |-> t, extensions |-> e]

\* Spec: one pair of mints, a handful of registries (both mints listed, one
\* missing, an entry without address), every quote, swap and RPC response.
SampleTokenLists ==
    { <<>>,
      <<Tok("mintA", JInt(1), ExtAbsent), Tok("mintB", JInt(0), ExtDict("cg"))>>,
      <<Tok("mintA", JInt(1), ExtAbsent)>>,
      <<Tok("mintB", JNone, ExtAbsent)>>,
      <<Tok("mintA", JInt(1), ExtAbsent), Tok(Absent, JInt(1), ExtAbsent)>> }

Init == InitWith({<<"mintA", "mintB">>}, 1..MaxAtoms, Units)

Next ==
    \/ FetchTokens(RegistryResponses(SampleTokenLists))
    \/ GetQuote(QuoteResponses(QuoteJsons))
    \/ GetSwapTx(SwapResponses(SwapJsons))
    \/ DecodeSign
    \/ Submit(RpcResults)

Spec == Init /\ [][Next]_vars

\* SpecRegistry: every pair of mints and every registry up to MaxTokens
\* entries, with a few quote and swap responses behind it.
SampleQuoteJsons ==
    {QList(<<"r1">>), QDict(JSeq(<<"r1", "r2">>), JNone, JNone), QDict(JNone, JNone, JNone)}

SampleSwapJsons ==
    {[shape |-> "obj_with", tx |-> "good"], [shape |-> "obj_without", tx |-> "none"]}

InitRegistry == InitWith(Mints \X Mints, {1}, {[dec |-> 0, price |-> 100]})

NextRegistry ==
    \/ FetchTokens(RegistryResponses(TokenLists))
    \/ GetQuote([kind : {"ok"}, json : SampleQuoteJsons])
    \/ GetSwapTx([kind : {"ok"}, json : SampleSwapJsons])
    \/ DecodeSign
    \/ Submit(RpcResults)

SpecRegistry == InitRegistry /\ [][NextRegistry]_vars

\* ================================================================ claims
InCalls(c) == \E i \in DOMAIN calls : calls[i] = c
LastCall   == calls[Len(calls)]
Pipeline   == <<"registry", "quote", "swap", "sign", "submit">>

\* The registry lists mint m with a nonzero (or missing) trade flag or with a
\* coingecko identifier.
Listed(m) ==
    \E i \in DOMAIN token_list :
        /\ token_list[i].address = m
        /\ \/ token_list[i].trades # JInt(0)
           \/ token_list[i].extensions.k = "dict" /\ token_list[i].extensions.id # ""

\* C1: when the registry was fetched (tokens = "ok") and the check has run,
\* a mint that is not listed as tradable ends the process before any quote
\* request, with the input-side message whenever the input mint fails and
\* the output-side message when only the output mint fails.
C1_ExitBeforeQuote ==
    (tokens = "ok" /\ (~Listed(from_mint) \/ ~Listed(to_mint))) =>
        /\ ~InCalls("quote")
        /\ pc = "exited"
        /\ exit_msg = IF ~Listed(from_mint) THEN "input_not_tradable"
                      ELSE "output_not_tradable"

\* C2: after a registry fetch failure (network error, HTTP error status,
\* malformed JSON) the warning is printed, no tradability exit happens and
\* the process is at the quote request or past it.
C2_FetchFailureContinues ==
    (tokens \in FailKinds) =>
        /\ warned
        /\ tradable = {}
        /\ exit_msg \notin {"input_not_tradable", "output_not_tradable"}
        /\ pc = "get_quote" \/ InCalls("quote")

C2_Witness ==
    /\ tokens = "badjson" /\ warned /\ InCalls("quote")
    /\ from_mint = "mintB" /\ to_mint = "mintA"

\* The first route of a quote body that is a non-empty bare list or an object
\* whose "data" is a non-empty list.
HasRouteList ==
    /\ quote_resp = "ok"
    /\ \/ q_json.k = "seq" /\ q_json.s # <<>>
       \/ q_json.k = "dict" /\ q_json.data.k = "seq" /\ q_json.data.s # <<>>

R1 == IF q_json.k = "seq" THEN q_json.s[1] ELSE q_json.data.s[1]

\* C3: for both shapes of the quote body the selected route is its first
\* element r1, and the quoteResponse of the swap request is that r1.
C3_FirstRouteBothShapes ==
    HasRouteList =>
        /\ quote = R1
        /\ InCalls("swap") => swap_request = R1

C3_Witness ==
    /\ q_json.k = "dict" /\ q_json.data.s = <<"r2", "r1">>
    /\ InCalls("swap") /\ swap_request = "r2"

\* C4: a swap response with HTTP success and a parsed body without the
\* "swapTransaction" field ends the process with a failure (the message of
\* line 72 when the body is an object or a list), and nothing is decoded,
\* signed or submitted.
C4_MissingSwapTransaction ==
    (swap_resp = "ok" /\ swap_json.shape # "obj_with") =>
        /\ pc = "exited" /\ exit_code = 1 /\ exit_msg # "none"
        /\ swap_json.shape \in {"obj_without", "list_without"} => exit_msg = "no_swap_tx"
        /\ ~decoded /\ ~signed /\ ~sent
        /\ ~InCalls("sign") /\ ~InCalls("submit") /\ rpc = "pending"

C4_Witness ==
    /\ swap_resp = "ok" /\ swap_json.shape = "obj_without"
    /\ exit_msg = "no_swap_tx" /\ ~decoded /\ ~signed

\* The stage failures C5 lists.
RouteValue == IF q_json.k = "dict" THEN q_json.data ELSE q_json
QuoteFailed ==
    \/ quote_resp \in FailKinds
    \/ quote_resp = "ok" /\ RouteValue.k = "none"
    \/ quote_resp = "ok" /\ RouteValue.k = "int"
    \/ quote_resp = "ok" /\ RouteValue.k = "seq" /\ RouteValue.s = <<>>
SwapFailed ==
    \/ swap_resp \in FailKinds
    \/ swap_resp = "ok" /\ swap_json.shape # "obj_with"
DecodeFailed == swap_json.tx = "bad" /\ pc # "sign_tx"
RpcFailed == rpc = "raise"

Died(stage) ==
    /\ pc = "exited" /\ exit_code = 1 /\ exit_msg # "none"
    /\ LastCall = stage

\* C5: every failure of a stage after the tradability check ends the process
\* at that stage with a non-zero status and a message (the sys.exit message of
\* the handler, or the traceback of the uncaught exception); a registry fetch
\* failure never ends it; status zero only after a successful submission.
C5_FailuresAreFatal ==
    /\ QuoteFailed => Died("quote")
    /\ SwapFailed => Died("swap")
    /\ DecodeFailed => (Died("swap") /\ exit_msg = "traceback")
    /\ RpcFailed => Died("submit")
    /\ quote_resp = "http_error" => exit_msg = "quote_api_error"
    /\ swap_resp = "http_error" => exit_msg = "swap_api_error"
    /\ RpcFailed => exit_msg = "rpc_failed"
    /\ (tokens \in FailKinds /\ pc = "exited") => LastCall # "registry"
    /\ exit_code = 0 => (pc = "done" /\ rpc = "ok" /\ sent)
    /\ pc = "done" => exit_code = 0

C5_Witness ==
    /\ tokens \in FailKinds /\ rpc = "raise"
    /\ exit_code = 1 /\ exit_msg = "rpc_failed"

\* C6: the calls made so far are a prefix of registry, quote, swap, sign,
\* submit (each at most once, in that order), and the position of the process
\* is the one that follows the last call.
C6_LinearPipeline ==
    /\ Len(calls) <= Len(Pipeline)
    /\ \A i \in DOMAIN calls : calls[i] = Pipeline[i]
    /\ pc = "fetch_tokens" => calls = <<>>
    /\ pc = "get_quote"    => Len(calls) = 1
    /\ pc = "get_swap_tx"  => Len(calls) = 2
    /\ pc = "sign_tx"      => Len(calls) = 3
    /\ pc = "submit"       => Len(calls) = 4
    /\ pc = "done"         => Len(calls) = 5

C6_Witness == pc = "done" /\ calls = Pipeline

\* An empty quote response that carries an integer minInAmount greater than
\* the requested amount.
MinHintCase ==
    /\ quote_resp = "ok" /\ q_json.k = "dict" /\ ~Truthy(q_json.data)
    /\ q_json.minInAmount.k = "int" /\ q_json.minInAmount.v > atoms_in

\* C7 as stated: the reported amount (min_usd, in cents) is strictly greater
\* than the USD value of the requested amount, atoms_in / 10^input_dec *
\* price_usd.
C7_ReportedStrictlyGreater ==
    MinHintCase =>
        /\ exit_msg = "min_amount"
        /\ min_usd.k = "int"
        /\ min_usd.v * 10^input_dec > atoms_in * price_usd

\* C7 as amended: the process exits with the minimum-amount message and the
\* reported amount is at least the USD value of the requested amount rounded
\* to two decimals.
C7_ReportedAtLeastRounded ==
    MinHintCase =>
        /\ exit_msg = "min_amount"
        /\ min_usd.k = "int"
        /\ min_usd.v >= UsdCents(atoms_in, input_dec, price_usd)

C7_Witness ==
    /\ MinHintCase /\ exit_msg = "min_amount"
    /\ min_usd.v * 10^input_dec < atoms_in * price_usd

NoRouteCase ==
    /\ quote_resp = "ok"
    /\ \/ q_json.k = "seq" /\ q_json.s = <<>>
       \/ q_json.k = "dict" /\ ~Truthy(q_json.data)

\* C9: the swap request is made only after a quote body with a non-empty route
\* list; an empty or absent route set ends the process with the raw dump and
\* the no-route message, or with the minimum-amount message, and no swap
\* request, signature or submission is made.
C9_RouteBeforeSwap ==
    /\ InCalls("swap") => HasRouteList
    /\ NoRouteCase =>
        /\ pc = "exited"
        /\ \/ exit_msg = "no_route" /\ dumped
           \/ exit_msg = "min_amount" /\ ~dumped
        /\ ~InCalls("swap") /\ ~InCalls("sign") /\ ~InCalls("submit")
        /\ swap_request = "none" /\ ~signed /\ ~sent
    /\ (quote_resp = "ok" /\ q_json = QDict(JSeq(<<>>), JNone, JNone)) =>
         (exit_msg = "no_route" /\ dumped)

\* C8: whenever the registry was fetched and parsed, the check is applied (no
\* warning, no skip), so a mint that is not listed as tradable stops the run
\* at the tradability stage.
C8_FailClosedOnBadData ==
    (tokens = "ok") =>
        /\ ~warned
        /\ (~Listed(from_mint) \/ ~Listed(to_mint)) => (pc = "exited" /\ calls = <<"registry">>)

\* An entry is excluded when its trades value equals 0 and it carries no
\* coingecko identifier.
Excluded(t) ==
    /\ t.trades.k = "int" /\ t.trades.v = 0
    /\ t.extensions.id = ""

\* C10: when the comprehension of line 6 completes, a mint is in the tradable
\* set exactly when some entry with its address is not excluded; an entry
\* without a trades field and without a coingecko identifier counts as
\* tradable, and the input-side exit follows the set.
C10_TradableMembership ==
    (tokens = "ok" /\ ~warned) =>
        /\ \A m \in Mints :
             m \in tradable <=>
                \E i \in DOMAIN token_list :
                    token_list[i].address = m /\ ~Excluded(token_list[i])
        /\ exit_msg = "input_not_tradable" <=> from_mint \notin tradable

C10_Witness ==
    /\ tokens = "ok" /\ ~warned
    /\ token_list = <<Tok("mintA", JNone, ExtAbsent), Tok("mintB", JNone, ExtDict(""))>>
    /\ from_mint = "mintA" /\ to_mint = "mintB"
    /\ tradable = {"mintA", "mintB"} /\ InCalls("quote")

====
